---- MODULE Spec2Model ----
(***************************************************************************)
(* Monte Carlo Tree Search of src/MCTS.py: the statistics store (Qsa, Ns,  *)
(* Nsa, Ps), the recursive search and getActionProbabilities.              *)
(*                                                                         *)
(* Numbers are exact rationals <<n, d>> (d > 0, lowest terms); <<0, 0>> is *)
(* the NaN that numpy's 0/0 produces.  The game engine (module Chess) and  *)
(* the evaluation model (module Model) are not part of the sources: they   *)
(* are a small acyclic game and a bounded nondeterministic oracle.         *)
(***************************************************************************)
EXTENDS Integers, Sequences, FiniteSets, TLC

VARIABLES
    Qsa,          \* (state, action) -> expected value of the action
    Ns,           \* state -> number of visits
    Nsa,          \* (state, action) -> number of times the action was taken
    Ps,           \* state -> prior policy
    stack,        \* the activations of search, the innermost last
    ret,          \* the value the last finished activation returned
    mode,         \* "idle", "search" (a direct call) or "gap"
    remaining,    \* simulations getActionProbabilities has still to run
    temp,         \* the temperature of the getActionProbabilities call
    result,       \* the vector getActionProbabilities returned, <<>> if none
    raised,       \* the last top-level call ended in an exception
    root,         \* the canonical board every top-level call is given
    sims,         \* top-level search calls that returned
    oracle,       \* state -> what predict answered for it
    last,         \* what the last finished activation or call did
    backups,      \* (state, action) -> the values backed up through it, in order
    path,         \* the (state, action) pairs the current simulation chose
    leaf,         \* where the current simulation ended and the value found there
    before,       \* the store when the current simulation started
    twin          \* which MCTS object is in use, and what the first one returned

vars == <<Qsa, Ns, Nsa, Ps, stack, ret, mode, remaining, temp, result,
          raised, root, sims, oracle, last, backups, path, leaf, before, twin>>

store == <<Qsa, Ns, Nsa, Ps>>

\* the history kept beside the program's state
history == <<backups, path, leaf, before, twin>>

(***************************************************************************)
(* Bounds of the model.                                                    *)
(***************************************************************************)
\* number of entries of a policy vector (Chess.ACTION_SIZE)
ACTION_SIZE == 3
\* boards are numbered 0..MaxBoard
MaxBoard == 6
\* total number of top-level search calls of one session
MaxSims == 4
\* largest simulation budget of one getActionProbabilities call
MaxBudget == 2

\* exploration constant of the UCB score
C == 1

Actions == 0 .. (ACTION_SIZE - 1)

(***************************************************************************)
(* Exact rational arithmetic.                                              *)
(***************************************************************************)
Abs(n) == IF n < 0 THEN -n ELSE n

Sign(n) == IF n < 0 THEN -1 ELSE IF n > 0 THEN 1 ELSE 0

RECURSIVE GCD(_, _)
GCD(a, b) == IF b = 0 THEN a ELSE GCD(b, a % b)

\* n / d as numpy computes it: 0/0 is NaN, x/0 is a signed infinity
Frac(n, d) ==
    IF d = 0 THEN <<Sign(n), 0>>
    ELSE LET g == GCD(Abs(n), Abs(d))
             s == Sign(d)
         IN  <<s * (n \div g), s * (d \div g)>>

NaN == <<0, 0>>

Zero == <<0, 1>>

One == <<1, 1>>

FInt(n) == <<n, 1>>

FNeg(a) == <<-a[1], a[2]>>

FAdd(a, b) ==
    LET l == (a[2] * b[2]) \div GCD(a[2], b[2])
    IN  Frac(a[1] * (l \div a[2]) + b[1] * (l \div b[2]), l)

FSub(a, b) == FAdd(a, FNeg(b))

FMul(a, b) ==
    LET g1 == GCD(Abs(a[1]), b[2])
        g2 == GCD(Abs(b[1]), a[2])
    IN  Frac((a[1] \div g1) * (b[1] \div g2), (a[2] \div g2) * (b[2] \div g1))

FDiv(a, b) ==
    IF b[1] = 0 THEN Frac(a[1], 0)
    ELSE FMul(a, <<Sign(b[1]) * b[2], Abs(b[1])>>)

FLess(a, b) ==
    LET l == (a[2] * b[2]) \div GCD(a[2], b[2])
    IN  a[1] * (l \div a[2]) < b[1] * (l \div b[2])

RECURSIVE FSum(_, _)
\* sum of the entries 0..n-1 of a vector of rationals
FSum(v, n) == IF n = 0 THEN Zero ELSE FAdd(FSum(v, n - 1), v[n - 1])

RECURSIVE Pow(_, _)
Pow(n, e) == IF e = 0 THEN 1 ELSE n * Pow(n, e - 1)

(***************************************************************************)
(* The game engine (module Chess).  Action a leads from board p to board   *)
(* p + a + 1, so no position recurs along a line of play.  There are two   *)
(* families of boards.  Boards 0..MaxBoard: the last four are finished     *)
(* games: drawn by rule (moves are still possible), won, stalemate (no     *)
(* move) and lost; the others are in play and odd ones forbid action 0.    *)
(* Boards LineStart..LastBoard: MaxSims boards in play with exactly the    *)
(* two legal actions 0 and 1, then a lost and a won board, so that every   *)
(* line of play from them ends decided.                                    *)
(***************************************************************************)
WHITE == 1

LineStart == MaxBoard + 1

LineOver == LineStart + MaxSims

LastBoard == LineOver + 1

Boards == [pos : 0 .. LastBoard, player : {WHITE}]

\* the boards a session starts from: every board of the first family, the
\* first board of the second and its last four
Roots ==
    {b \in Boards : b.pos <= MaxBoard \/ b.pos = LineStart \/ b.pos >= LineOver - 2}

IsOver(pos) ==
    IF pos <= MaxBoard THEN pos >= MaxBoard - 3 ELSE pos >= LineOver

Outcome(pos) ==
    IF pos = MaxBoard \/ pos = LineOver THEN -1
    ELSE IF pos = MaxBoard - 2 \/ pos = LastBoard THEN 1
    ELSE 0

Legal(pos, a) ==
    IF pos <= MaxBoard
    THEN /\ pos + a + 1 <= MaxBoard
         /\ pos < MaxBoard - 2
         /\ ~(pos % 2 = 1 /\ a = 0)
    ELSE /\ pos < LineOver
         /\ a < 2

\* stable key of a canonical position
get_fen(board) == <<"fen", board.pos, board.player>>

\* 0 while the game goes on, else the outcome seen by `player`
get_game_ended(board, player) ==
    IF IsOver(board.pos) THEN Outcome(board.pos) * board.player * player ELSE 0

\* 0/1 indicator vector of the legal actions
get_valid_actions(board) == [a \in Actions |-> IF Legal(board.pos, a) THEN 1 ELSE 0]

\* what decoding anything but an action index gives
Failure == [delta |-> 0]

\* an action index decoded into a move; anything else is a failure
action_to_move(action) ==
    IF action \in Actions THEN [delta |-> action + 1] ELSE Failure

\* the board after the move, seen by the same side, and the player to move
get_next_state(board, move) ==
    <<[pos |-> board.pos + move.delta, player |-> -board.player], -board.player>>

\* the board seen by the player to move
get_canonical_form(board, player) ==
    [pos |-> board.pos, player |-> board.player * player]

(***************************************************************************)
(* The evaluation model: predict answers with any policy vector of         *)
(* Policies and any value of Values; the search masks the policy itself.   *)
(***************************************************************************)
OneHot(i) == [a \in Actions |-> IF a = i THEN One ELSE Zero]

Uniform == [a \in Actions |-> Frac(1, ACTION_SIZE)]

Policies == {OneHot(0), Uniform}

Values == {FInt(-1), FInt(0), FInt(1)}

(***************************************************************************)
(* MCTS.search, one step of the recursion at a time.  A frame of `stack`   *)
(* is one activation of search: its canonical board, the action it chose   *)
(* (None before the choice) and where it stands: "enter" at its first      *)
(* line, "recursed" while its recursive call runs or has just returned.    *)
(***************************************************************************)
None == -1

EmptyMap == [k \in {} |-> 0]

Top == stack[Len(stack)]

Frame(board) == [board |-> board, action |-> None, pc |-> "enter"]

\* variant of EndedReturn that forgets the sign flip of line 57
EndedReturnUnflipped(ended) == FInt(ended)

\* the value a finished game returns
EndedReturn(ended) == FInt(-ended)

\* variant of ExpandReturn that forgets the sign flip of line 75
ExpandReturnUnflipped(value) == value

\* the value a newly expanded state returns
ExpandReturn(value) == FNeg(value)

\* variant of BackupReturn that forgets the sign flip of line 115
BackupReturnUnflipped(value) == value

\* the value an inner node returns after its backup
BackupReturn(value) == FNeg(value)

\* variant of Masked that forgets the mask of line 65
MaskedUnmasked(policy, mask) == policy

\* the policy times the mask, entry by entry
Masked(policy, mask) == [a \in Actions |-> FMul(policy[a], FInt(mask[a]))]

\* the prior stored for a new state: masked and renormalized, or the fallback
NormalizedPrior(policy, mask) ==
    LET masked == Masked(policy, mask)
        sum    == FSum(masked, ACTION_SIZE)
    IN  IF FLess(Zero, sum)
        THEN [a \in Actions |-> FDiv(masked[a], sum)]
        ELSE [a \in Actions |-> FAdd(masked[a], Frac(1, ACTION_SIZE))]

(***************************************************************************)
(* A UCB score is q + sqrt(rad) plus a positive infinitesimal multiple of  *)
(* tie: the 1e-8 under the root of an unexplored edge is far below every   *)
(* gap between two scores of the bounded model, so it only orders scores   *)
(* whose other parts are equal.                                            *)
(***************************************************************************)
calculateUCT(state, action) ==
    IF <<state, action>> \in DOMAIN Qsa
    THEN [q   |-> Qsa[<<state, action>>],
          rad |-> FMul(FInt(C * C), Frac(Ns[state], Nsa[<<state, action>>])),
          tie |-> Zero]
    ELSE [q   |-> Zero,
          rad |-> FMul(FInt(C * C),
                       FMul(FMul(Ps[state][action], Ps[state][action]), FInt(Ns[state]))),
          tie |-> FMul(FInt(C), Ps[state][action])]

\* x + sqrt(r1) > sqrt(r2), for rationals x, r1 >= 0, r2 >= 0
SqrtGreater(x, r1, r2) ==
    LET xx == FMul(x, x)
        y  == FSub(FSub(r2, xx), r1)
        l  == FMul(FInt(4), FMul(xx, r1))
        yy == FMul(y, y)
    IN  IF x[1] > 0 /\ ~FLess(r1, r2) THEN TRUE
        ELSE IF x[1] < 0 /\ ~FLess(r2, r1) THEN FALSE
        ELSE IF x[1] < 0 /\ FLess(r1, xx) THEN FALSE
        ELSE IF x[1] > 0 THEN y[1] < 0 \/ FLess(yy, l)
        ELSE IF x[1] = 0 THEN y[1] < 0
        ELSE y[1] < 0 /\ FLess(l, yy)

\* u > v as scores
UCTGreater(u, v) ==
    LET x == FSub(u.q, v.q)
    IN  \/ SqrtGreater(x, u.rad, v.rad)
        \/ /\ ~SqrtGreater(FNeg(x), v.rad, u.rad)
           /\ FLess(v.tie, u.tie)

LowestUCT == [q |-> FInt(-99999), rad |-> Zero, tie |-> Zero]

RECURSIVE Scan(_, _, _, _, _)
\* the loop over the actions from `action` on
Scan(state, valid_moves, action, best_UCT, best_action) ==
    IF action = ACTION_SIZE THEN best_action
    ELSE IF valid_moves[action] = 1
              /\ UCTGreater(calculateUCT(state, action), best_UCT)
         THEN Scan(state, valid_moves, action + 1, calculateUCT(state, action), action)
         ELSE Scan(state, valid_moves, action + 1, best_UCT, best_action)

\* variant of BestAction that forgets the test of line 82 and scans every action
BestActionUnmasked(state, valid_moves) ==
    Scan(state, [a \in Actions |-> 1], 0, LowestUCT, None)

\* the action with the highest score, None when no action is valid
BestAction(state, valid_moves) == Scan(state, valid_moves, 0, LowestUCT, None)

\* variant of NextBoard that searches the board it was given again
NextBoardSame(board, action) == board

\* lines 91-97: the canonical board the recursive call is given
NextBoard(board, action) ==
    LET next == get_next_state(board, action_to_move(action))
    IN  get_canonical_form(next[1], next[2])

\* variant of UpdatedQsa that divides by Nsa instead of Nsa + 1
UpdatedQsaOffByOne(state, action, value) ==
    IF <<state, action>> \in DOMAIN Qsa
    THEN [Qsa EXCEPT ![<<state, action>>] =
             FDiv(FAdd(FMul(FInt(Nsa[<<state, action>>]), @), value),
                  FInt(Nsa[<<state, action>>]))]
    ELSE Qsa @@ (<<state, action>> :> value)

\* Qsa after line 103-106
UpdatedQsa(state, action, value) ==
    IF <<state, action>> \in DOMAIN Qsa
    THEN [Qsa EXCEPT ![<<state, action>>] =
             FDiv(FAdd(FMul(FInt(Nsa[<<state, action>>]), @), value),
                  FInt(Nsa[<<state, action>>] + 1))]
    ELSE Qsa @@ (<<state, action>> :> value)

\* variant of UpdatedNs that forgets line 109
UpdatedNsStale(state) == Ns

\* variant of UpdatedNs that counts the visit at every known state
UpdatedNsEvery(state) == [s \in DOMAIN Ns |-> Ns[s] + 1]

\* Ns after line 109
UpdatedNs(state) == [Ns EXCEPT ![state] = @ + 1]

\* variant of UpdatedNsa that assigns 1 on every visit
UpdatedNsaAlwaysOne(state, action) ==
    IF <<state, action>> \in DOMAIN Nsa
    THEN [Nsa EXCEPT ![<<state, action>>] = 1]
    ELSE Nsa @@ (<<state, action>> :> 1)

\* variant of UpdatedNsa that forgets the else branch of line 112-113
UpdatedNsaKnownOnly(state, action) ==
    IF <<state, action>> \in DOMAIN Nsa
    THEN [Nsa EXCEPT ![<<state, action>>] = @ + 1]
    ELSE Nsa

\* Nsa after line 110-113
UpdatedNsa(state, action) ==
    IF <<state, action>> \in DOMAIN Nsa
    THEN [Nsa EXCEPT ![<<state, action>>] = @ + 1]
    ELSE Nsa @@ (<<state, action>> :> 1)

(***************************************************************************)
(* MCTS.getActionProbabilities, after its simulations.                     *)
(***************************************************************************)
\* the visit counts of the root's edges
RootCounts(state) ==
    [action \in Actions |->
        IF <<state, action>> \in DOMAIN Nsa THEN Nsa[<<state, action>>] ELSE 0]

\* variant of argmax that takes the last index holding the largest entry
argmaxLast(Na) ==
    CHOOSE a \in Actions :
        /\ \A b \in Actions : Na[b] <= Na[a]
        /\ \A b \in Actions : b > a => Na[b] < Na[a]

\* numpy's argmax: the first index holding the largest entry
argmax(Na) ==
    CHOOSE a \in Actions :
        /\ \A b \in Actions : Na[b] <= Na[a]
        /\ \A b \in Actions : b < a => Na[b] < Na[a]

\* variant of Exponent that ignores the temperature of line 47
ExponentIgnored(temperature) == 1

\* temperatures are rationals t = <<n, d>> whose 1/t is a whole number
Exponent(temperature) == temperature[2] \div temperature[1]

Temperatures == {Zero, One, Frac(1, 2)}

Probabilities(Na, temperature) ==
    IF temperature = Zero
    THEN [a \in Actions |-> IF a = argmax(Na) THEN One ELSE Zero]
    ELSE LET powered == [a \in Actions |-> FInt(Pow(Na[a], Exponent(temperature)))]
             total   == FSum(powered, ACTION_SIZE)
         IN  [a \in Actions |-> FDiv(powered[a], total)]

(***************************************************************************)
(* The state machine.                                                      *)
(***************************************************************************)
\* the four dictionaries of a newly constructed MCTS
EmptyStore == <<EmptyMap, EmptyMap, EmptyMap, EmptyMap>>

\* variant of NewStore in which the dictionaries belong to the class and a
\* second object shares what the first one stored
NewStoreShared(old) == old

\* lines 17-23: the dictionaries of an MCTS constructed while the
\* dictionaries of an earlier one hold `old`
NewStore(old) == EmptyStore

\* variant of StoreAtCall that starts every call with empty dictionaries
StoreAtCallReset == EmptyStore

\* lines 25-35: getActionProbabilities searches with the dictionaries as the
\* earlier calls left them
StoreAtCall == store

NoLeaf == [kind |-> "none", state |-> <<>>, value |-> Zero]

FirstObject == [session |-> 1, budget |-> 0, saved |-> <<>>]

Init ==
    /\ Qsa = EmptyStore[1]
    /\ Ns = EmptyStore[2]
    /\ Nsa = EmptyStore[3]
    /\ Ps = EmptyStore[4]
    /\ stack = <<>>
    /\ ret = Zero
    /\ mode = "idle"
    /\ remaining = 0
    /\ temp = Zero
    /\ result = <<>>
    /\ raised = FALSE
    /\ root \in Roots
    /\ sims = 0
    /\ oracle = EmptyMap
    /\ last = [kind |-> "none", board |-> root, value |-> Zero]
    /\ backups = EmptyMap
    /\ path = <<>>
    /\ leaf = NoLeaf
    /\ before = EmptyStore
    /\ twin = FirstObject

\* the innermost activation returns v to its caller
Return(v) ==
    /\ stack' = SubSeq(stack, 1, Len(stack) - 1)
    /\ ret' = v
    /\ sims' = IF Len(stack) = 1 THEN sims + 1 ELSE sims
    /\ mode' = IF Len(stack) = 1 /\ mode = "search" THEN "idle" ELSE mode

\* a top-level call search(root) starts: what the simulation will be
\* compared with is noted
Simulation ==
    /\ stack' = <<Frame(root)>>
    /\ path' = <<>>
    /\ leaf' = NoLeaf
    /\ before' = store

\* a direct call search(root)
SearchCall ==
    /\ mode = "idle"
    /\ twin.session = 1
    /\ sims < MaxSims
    /\ mode' = "search"
    /\ Simulation
    /\ temp' = Zero
    /\ result' = <<>>
    /\ raised' = FALSE
    /\ twin' = [twin EXCEPT !.budget = 0]
    /\ UNCHANGED <<store, ret, remaining, root, sims, oracle, last, backups>>

\* lines 54-57: the game is over
SearchEnded ==
    /\ stack # <<>>
    /\ Top.pc = "enter"
    /\ LET ended == get_game_ended(Top.board, WHITE)
       IN  /\ ended # 0
           /\ Return(EndedReturn(ended))
           /\ last' = [kind |-> "ended", board |-> Top.board,
                       value |-> EndedReturn(ended)]
           /\ leaf' = [kind |-> "ended", state |-> get_fen(Top.board),
                       value |-> FInt(ended)]
    /\ UNCHANGED <<store, remaining, temp, result, raised, root, oracle,
                   backups, path, before, twin>>

\* lines 59-75: the state has not been visited yet.  predict is a function
\* of the position: asked again about a state, it answers as before
SearchExpand ==
    /\ stack # <<>>
    /\ Top.pc = "enter"
    /\ get_game_ended(Top.board, WHITE) = 0
    /\ get_fen(Top.board) \notin DOMAIN Ps
    /\ \E policy \in Policies, value \in Values :
          LET state == get_fen(Top.board)
              mask  == get_valid_actions(Top.board)
          IN  /\ state \in DOMAIN oracle =>
                     oracle[state] = [policy |-> policy, value |-> value]
              /\ oracle' = (state :> [policy |-> policy, value |-> value]) @@ oracle
              /\ Ps' = Ps @@ (state :> NormalizedPrior(policy, mask))
              /\ Ns' = Ns @@ (state :> 0)
              /\ Return(ExpandReturn(value))
              /\ last' = [kind |-> "expanded", board |-> Top.board,
                          value |-> ExpandReturn(value)]
              /\ leaf' = [kind |-> "expanded", state |-> state, value |-> value]
    /\ UNCHANGED <<Qsa, Nsa, remaining, temp, result, raised, root,
                   backups, path, before, twin>>

\* lines 76-100: the state is known, the best action is played and searched
SearchSelect ==
    /\ stack # <<>>
    /\ Top.pc = "enter"
    /\ get_game_ended(Top.board, WHITE) = 0
    /\ get_fen(Top.board) \in DOMAIN Ps
    /\ LET state       == get_fen(Top.board)
           valid_moves == get_valid_actions(Top.board)
           action      == BestAction(state, valid_moves)
           move        == action_to_move(action)
       IN  /\ move # Failure
           /\ stack' = [stack EXCEPT ![Len(stack)] =
                            [@ EXCEPT !.action = action, !.pc = "recursed"]]
                       \o <<Frame(NextBoard(Top.board, action))>>
           /\ path' = Append(path, <<state, action>>)
    /\ UNCHANGED <<store, ret, mode, remaining, temp, result, raised,
                   root, sims, oracle, last, backups, leaf, before, twin>>

\* lines 80-91 with no valid move: best_action stays None, decoding it fails
\* and the exception leaves every activation and the top-level call
SearchNoAction ==
    /\ stack # <<>>
    /\ Top.pc = "enter"
    /\ get_game_ended(Top.board, WHITE) = 0
    /\ get_fen(Top.board) \in DOMAIN Ps
    /\ action_to_move(BestAction(get_fen(Top.board), get_valid_actions(Top.board)))
           = Failure
    /\ stack' = <<>>
    /\ mode' = "idle"
    /\ remaining' = 0
    /\ raised' = TRUE
    /\ last' = [kind |-> "raised", board |-> Top.board, value |-> Zero]
    /\ UNCHANGED <<store, ret, temp, result, root, sims, oracle, history>>

\* lines 100-115: the recursive call returned, its value is backed up
SearchBackup ==
    /\ stack # <<>>
    /\ Top.pc = "recursed"
    /\ LET state  == get_fen(Top.board)
           action == Top.action
           value  == ret
           edge   == <<state, action>>
       IN  /\ Qsa' = UpdatedQsa(state, action, value)
           /\ Ns' = UpdatedNs(state)
           /\ Nsa' = UpdatedNsa(state, action)
           /\ Return(BackupReturn(value))
           /\ last' = [kind |-> "backup", board |-> Top.board,
                       value |-> BackupReturn(value)]
           /\ backups' = IF edge \in DOMAIN backups
                         THEN [backups EXCEPT ![edge] = Append(@, value)]
                         ELSE backups @@ (edge :> <<value>>)
    /\ UNCHANGED <<Ps, remaining, temp, result, raised, root, oracle,
                   path, leaf, before, twin>>

\* a call getActionProbabilities(root, temperature).  The source runs
\* NUMBER_OF_MOVES_TO_SIMULATE = 30 simulations; the model runs `budget` of
\* them, at least two so that, as in the source, a root in play is expanded
\* and left once.  The temperature is not read before line 41 and is drawn
\* there.  twin.budget keeps the budget of a call on empty dictionaries.
GetActionProbabilitiesCall ==
    /\ mode = "idle"
    /\ twin.session = 1
    /\ \E budget \in 2 .. MaxBudget :
          /\ sims + budget <= MaxSims
          /\ remaining' = budget
          /\ twin' = [twin EXCEPT !.budget = IF store = EmptyStore THEN budget ELSE 0]
    /\ mode' = "gap"
    /\ temp' = Zero
    /\ result' = <<>>
    /\ raised' = FALSE
    /\ Qsa' = StoreAtCall[1]
    /\ Ns' = StoreAtCall[2]
    /\ Nsa' = StoreAtCall[3]
    /\ Ps' = StoreAtCall[4]
    /\ UNCHANGED <<stack, ret, root, sims, oracle, last, backups, path,
                   leaf, before>>

\* lines 34-35: the next simulation
GetActionProbabilitiesSearch ==
    /\ mode = "gap"
    /\ stack = <<>>
    /\ remaining > 0
    /\ remaining' = remaining - 1
    /\ Simulation
    /\ UNCHANGED <<store, ret, mode, temp, result, raised, root, sims,
                   oracle, last, backups, twin>>

\* lines 37-49: the probabilities from the root's visit counts.  The second
\* object is called with the temperature the first one was called with
GetActionProbabilitiesReturn ==
    /\ mode = "gap"
    /\ stack = <<>>
    /\ remaining = 0
    /\ \E temperature \in Temperatures :
          /\ twin.session = 2 => temperature = twin.saved.temp
          /\ temp' = temperature
          /\ result' = Probabilities(RootCounts(get_fen(root)), temperature)
          /\ last' = [kind |-> "probabilities", board |-> root, value |-> temperature]
    /\ mode' = "idle"
    /\ UNCHANGED <<store, stack, ret, remaining, raised, root, sims, oracle,
                   history>>

Next ==
    \/ SearchCall
    \/ SearchEnded
    \/ SearchExpand
    \/ SearchSelect
    \/ SearchNoAction
    \/ SearchBackup
    \/ GetActionProbabilitiesCall
    \/ GetActionProbabilitiesSearch
    \/ GetActionProbabilitiesReturn

Spec == Init /\ [][Next]_vars

\* After getActionProbabilities returned on new dictionaries, a second MCTS
\* is constructed with the same model (lines 17-23) and given the same call:
\* the same root, the same number of simulations and, at line 41, the same
\* temperature.  What the first object stored and returned is kept in twin.
SecondObject ==
    /\ mode = "idle"
    /\ twin.session = 1
    /\ twin.budget > 0
    /\ last.kind = "probabilities"
    /\ twin' = [session |-> 2, budget |-> twin.budget,
                saved |-> [store |-> store, result |-> result, temp |-> temp]]
    /\ Qsa' = NewStore(store)[1]
    /\ Ns' = NewStore(store)[2]
    /\ Nsa' = NewStore(store)[3]
    /\ Ps' = NewStore(store)[4]
    /\ mode' = "gap"
    /\ remaining' = twin.budget
    /\ temp' = Zero
    /\ result' = <<>>
    /\ raised' = FALSE
    /\ sims' = 0
    /\ last' = [kind |-> "none", board |-> root, value |-> Zero]
    /\ backups' = EmptyMap
    /\ path' = <<>>
    /\ leaf' = NoLeaf
    /\ before' = EmptyStore
    /\ UNCHANGED <<stack, ret, root, oracle>>

TwinNext ==
    \/ Next
    \/ SecondObject

\* two sessions, one after the other, with the same oracle
TwinSpec == Init /\ [][TwinNext]_vars

(***************************************************************************)
(* Properties.                                                             *)
(***************************************************************************)
rootState == get_fen(root)

\* no activation of search is running
Quiet == stack = <<>>

\* the root is a position the search does not cut short
RootInPlay == get_game_ended(root, WHITE) = 0

RECURSIVE Total(_, _)
\* sum of the entries 0..n-1 of a vector of integers
Total(v, n) == IF n = 0 THEN 0 ELSE Total(v, n - 1) + v[n - 1]

\* sum over all actions a of Nsa[(root, a)], absent edges counting 0
RootVisits ==
    Total([a \in Actions |->
              IF <<rootState, a>> \in DOMAIN Nsa THEN Nsa[<<rootState, a>>] ELSE 0],
          ACTION_SIZE)

\* the board a key of the store stands for
BoardOf(state) == [pos |-> state[2], player |-> state[3]]

LegalAt(state) == {a \in Actions : Legal(BoardOf(state).pos, a)}

\* the oracle's answer for the state puts no mass on a legal action
MassOnLegal(state) ==
    \E a \in LegalAt(state) : FLess(Zero, oracle[state].policy[a])

\* C1 as claimed: after N search calls on the same root in play, starting from
\* an empty store, the visit counts of the root's edges add up to N.
C1_RootVisitsEqualCalls ==
    (Quiet /\ RootInPlay) => RootVisits = sims

\* C1, amended: after N >= 1 search calls that returned, the visit counts of
\* the root's edges add up to N - 1 (the first call only expands the root);
\* they add up to 0 before any call.
C1_RootVisitsOneLessThanCalls ==
    (Quiet /\ RootInPlay) =>
        RootVisits = (IF sims = 0 THEN 0 ELSE sims - 1)

C1_Witness ==
    /\ Quiet
    /\ RootInPlay
    /\ sims >= 3
    /\ RootVisits = sims - 1
    /\ \E a \in Actions : <<rootState, a>> \in DOMAIN Nsa /\ Nsa[<<rootState, a>>] >= 2

\* C2 as claimed: a state expanded with an oracle policy that is zero on every
\* legal action has the prior 1/k on each of its k >= 1 legal actions and 0 on
\* every illegal action.
C2_DegenerateMaskUniformOverLegal ==
    \A state \in DOMAIN Ps :
        (LegalAt(state) # {} /\ ~MassOnLegal(state)) =>
            \A a \in Actions :
                Ps[state][a] = (IF a \in LegalAt(state)
                                THEN Frac(1, Cardinality(LegalAt(state)))
                                ELSE Zero)

\* C3: a state expanded with an oracle policy that has mass on a legal action
\* has a prior that sums to 1 over the legal actions and is 0 on every illegal
\* action, in every reachable state.
C3_PriorNormalized ==
    \A state \in DOMAIN Ps :
        MassOnLegal(state) =>
            /\ FSum([a \in Actions |->
                        IF a \in LegalAt(state) THEN Ps[state][a] ELSE Zero],
                    ACTION_SIZE) = One
            /\ \A a \in Actions \ LegalAt(state) : Ps[state][a] = Zero

C3_Witness ==
    \E state \in DOMAIN Ps :
        /\ MassOnLegal(state)
        /\ LegalAt(state) # Actions
        /\ \E a \in Actions \ LegalAt(state) : FLess(Zero, oracle[state].policy[a])
        /\ Ps[state] # oracle[state].policy

\* getActionProbabilities returned a vector for the temperature `temp`
Returned == mode = "idle" /\ last.kind = "probabilities" /\ result # <<>>

NoRootVisit == \A a \in Actions : RootCounts(rootState)[a] = 0

\* C4 as claimed: with a nonzero temperature and no visit of a root edge the
\* call ends in an error and returns no vector.
C4_DegenerateTemperatureSurfaced ==
    (mode = "idle" /\ last.kind = "probabilities" /\ temp # Zero /\ NoRootVisit) =>
        (raised /\ result = <<>>)

\* C5 as claimed: after one or more search calls on a fresh store some edge of
\* the root has been visited, whatever the root.
C5_SomeRootEdgeAfterOneCall ==
    (Quiet /\ sims >= 1) =>
        \E a \in Actions : RootCounts(rootState)[a] >= 1

\* C5, amended: after two or more search calls that returned, on a root whose
\* reported outcome is 0, some edge of the root has been visited.
C5_SomeRootEdgeAfterTwoCalls ==
    (Quiet /\ sims >= 2 /\ RootInPlay) =>
        \E a \in Actions : RootCounts(rootState)[a] >= 1

C5_Witness ==
    /\ Quiet
    /\ sims = 2
    /\ RootInPlay
    /\ \E a \in Actions : RootCounts(rootState)[a] = 1

InRange(v) == ~FLess(v, FInt(-1)) /\ ~FLess(FInt(1), v)

\* C6 as claimed: search on a new position in play returns the oracle's value v
\* for it.
C6_ExpandReturnsOracleValue ==
    last.kind = "expanded" => ret = oracle[get_fen(last.board)].value

\* C6, amended: search on a new position in play returns -v, the oracle's value
\* seen by the player who moved into the position; every returned value lies
\* in [-1, 1].
C6_ExpandReturnsNegatedValue ==
    /\ last.kind = "expanded" => ret = FNeg(oracle[get_fen(last.board)].value)
    /\ InRange(ret)

C6_Witness ==
    /\ last.kind = "expanded"
    /\ oracle[get_fen(last.board)].value = FInt(1)
    /\ ret = FInt(-1)
    /\ stack # <<>>

\* C7: a search call on a position whose outcome e is not 0 leaves Qsa, Ns, Nsa
\* and Ps unchanged, asks the oracle nothing, starts no recursive call and
\* returns -e.
C7_TerminalShortCircuit ==
    [][(stack # <<>> /\ Top.pc = "enter" /\ get_game_ended(Top.board, WHITE) # 0) =>
          /\ store' = store
          /\ oracle' = oracle
          /\ stack' = SubSeq(stack, 1, Len(stack) - 1)
          /\ ret' = FInt(-get_game_ended(Top.board, WHITE))]_vars

C7_Witness ==
    /\ last.kind = "ended"
    /\ stack # <<>>
    /\ ret = FInt(-Outcome(last.board.pos))
    /\ Outcome(last.board.pos) # 0

\* C8 as claimed: a position at which the game has ended, drawn ones included,
\* is a leaf: it is never given to the oracle, never added to Ps or Ns, and no
\* action is chosen at it.
C8_FinishedGamesAreLeaves ==
    /\ \A state \in DOMAIN Ps \cup DOMAIN Ns \cup DOMAIN oracle :
           ~IsOver(BoardOf(state).pos)
    /\ \A i \in 1 .. Len(stack) :
           IsOver(stack[i].board.pos) => stack[i].pc = "enter"

\* C9: with temperature 0 the returned vector has ACTION_SIZE entries, 1 at the
\* lowest index among the actions with the largest visit count and 0 elsewhere.
C9_TemperatureZeroOneHot ==
    (Returned /\ temp = Zero) =>
        /\ DOMAIN result = Actions
        /\ \E best \in Actions :
              /\ \A a \in Actions : RootCounts(rootState)[a] <= RootCounts(rootState)[best]
              /\ \A a \in Actions :
                    RootCounts(rootState)[a] = RootCounts(rootState)[best] => best <= a
              /\ \A a \in Actions : result[a] = (IF a = best THEN One ELSE Zero)

C9_Witness ==
    /\ Returned
    /\ temp = Zero
    /\ \E a, b \in Actions :
          /\ a < b
          /\ RootCounts(rootState)[a] >= 1
          /\ RootCounts(rootState)[a] = RootCounts(rootState)[b]
          /\ \A c \in Actions : RootCounts(rootState)[c] <= RootCounts(rootState)[a]
          /\ result[a] = One

\* C10: with a nonzero temperature t and a visited root edge the returned vector
\* sums to 1, its entry a is Nsa[(root, a)]^(1/t) over the sum of these powers,
\* which for t = 1 is Nsa[(root, a)] over the sum of the counts, and it is 0
\* for an action never taken from the root.
C10_TemperatureNormalizes ==
    (Returned /\ temp # Zero /\ ~NoRootVisit) =>
        LET e      == temp[2] \div temp[1]
            counts == RootCounts(rootState)
            powers == Total([a \in Actions |-> Pow(counts[a], e)], ACTION_SIZE)
        IN  /\ FSum(result, ACTION_SIZE) = One
            /\ \A a \in Actions : result[a] = Frac(Pow(counts[a], e), powers)
            /\ temp = One =>
                  \A a \in Actions : result[a] = Frac(counts[a], Total(counts, ACTION_SIZE))
            /\ \A a \in Actions :
                  <<rootState, a>> \notin DOMAIN Nsa => result[a] = Zero

C10_Witness ==
    /\ Returned
    /\ temp = Frac(1, 2)
    /\ \E a, b \in Actions :
          /\ RootCounts(rootState)[a] = 2
          /\ RootCounts(rootState)[b] = 1
          /\ result[a] = Frac(4, 5)
          /\ result[b] = Frac(1, 5)

(***************************************************************************)
(* The scenario of two legal actions: the session starts at the first      *)
(* board of the second family, predict has answered every position with    *)
(* the uniform policy (1/2 on each of the two legal actions once masked)   *)
(* and the value 0, and no finished game is within reach of four           *)
(* simulations.                                                            *)
(***************************************************************************)
Scenario ==
    /\ root.pos = LineStart
    /\ \A s \in DOMAIN oracle : oracle[s] = [policy |-> Uniform, value |-> Zero]

\* the root actions that were traversed at least once
RootActions == {a \in Actions : <<rootState, a>> \in DOMAIN Nsa}

\* C11: in the scenario, after four simulations on a new store the three
\* simulations that followed the expansion of the root did not all take the
\* same root action
C11_RootActionsAlternate ==
    (Scenario /\ Quiet /\ sims = 4) => Cardinality(RootActions) = 2

\* what the source does in the scenario of C11: the first simulation only
\* expands the root, every later one of the four takes root action 0, and
\* temperature 0 answers with the one-hot vector of action 0
C11_RootActionRepeats ==
    (Scenario /\ Quiet /\ sims \in 1 .. 4) =>
        /\ sims = 1 => (DOMAIN Ps = {rootState} /\ DOMAIN Nsa = {})
        /\ RootCounts(rootState) = [a \in Actions |-> IF a = 0 THEN sims - 1 ELSE 0]
        /\ (Returned /\ temp = Zero) => result = OneHot(0)

C11_Witness ==
    Scenario /\ sims = 4 /\ Returned /\ temp = Zero /\ Cardinality(DOMAIN oracle) = 4

\* the visits of the edges of a state, absent edges counting 0
EdgeVisits(state) ==
    Total([a \in Actions |->
              IF <<state, a>> \in DOMAIN Nsa THEN Nsa[<<state, a>>] ELSE 0],
          ACTION_SIZE)

\* C12: whenever no search call is in progress, no edge of a stored state
\* has more visits than the state, and the visits of a state are the sum of
\* the visits of its edges
C12_CountsConsistent ==
    Quiet =>
        \A s \in DOMAIN Ns :
            /\ \A a \in Actions :
                  <<s, a>> \in DOMAIN Nsa => Nsa[<<s, a>>] <= Ns[s]
            /\ Ns[s] = EdgeVisits(s)

C12_Witness ==
    /\ Quiet
    /\ \E s \in DOMAIN Ns :
          /\ Ns[s] >= 3
          /\ Cardinality({a \in Actions : <<s, a>> \in DOMAIN Nsa}) >= 2

\* C13: whenever no search call is in progress, Qsa and Nsa have the same
\* keys, these keys are the (state, action) pairs some finished step of the
\* search chose and backed a value up through, every stored edge count is at
\* least 1 and the state of every stored edge is a key of Ps and of Ns
C13_EdgesExist ==
    Quiet =>
        /\ DOMAIN Qsa = DOMAIN Nsa
        /\ DOMAIN Nsa = DOMAIN backups
        /\ \A e \in DOMAIN Nsa :
              /\ Nsa[e] >= 1
              /\ e[1] \in DOMAIN Ps
              /\ e[1] \in DOMAIN Ns

\* an exception ended a simulation after it chose, for the second time, an
\* edge that one simulation has backed a value up through
C13_Witness ==
    /\ Quiet
    /\ raised
    /\ path # <<>>
    /\ path[Len(path)] \in DOMAIN Nsa
    /\ Nsa[path[Len(path)]] = 1

\* C15: every action the search traverses at an expanded state in play is
\* legal there, no legal action scores higher and every legal action of a
\* lower index scores lower; hence every key of Qsa and Nsa is a legal action
\* of its state
C15_SelectionIsArgmax ==
    /\ [](\A e \in DOMAIN Qsa \cup DOMAIN Nsa : e[2] \in LegalAt(e[1]))
    /\ [][(stack # <<>> /\ Len(stack') = Len(stack) + 1) =>
             LET s == get_fen(Top.board)
                 a == stack'[Len(stack)].action
             IN  /\ a \in LegalAt(s)
                 /\ \A b \in LegalAt(s) :
                       ~UCTGreater(calculateUCT(s, b), calculateUCT(s, a))
                 /\ \A b \in LegalAt(s) :
                       b < a => UCTGreater(calculateUCT(s, a), calculateUCT(s, b))]_vars

\* a traversal chose between several legal actions and did not take the first
C15_Witness ==
    \E i \in 1 .. Len(stack) :
        /\ stack[i].pc = "recursed"
        /\ \E b \in LegalAt(get_fen(stack[i].board)) : b < stack[i].action
        /\ <<get_fen(stack[i].board), stack[i].action>> \in DOMAIN Qsa

\* a top-level call of search has returned
SimDone == Quiet /\ last.kind \in {"ended", "expanded", "backup"}

Sgn(n) == IF n % 2 = 0 THEN 1 ELSE -1

\* C16: when a simulation went through the edges path[1..k] and found the
\* value v at its leaf (the oracle's value, or the outcome of a finished
\* game), the value backed up through the i-th edge (from 0) is
\* (-1)^(k-i) * v and the top-level call returned (-1)^(k+1) * v
C16_SignAlternates ==
    SimDone =>
        LET k == Len(path)
            v == leaf.value
        IN  /\ \A i \in 0 .. k - 1 :
                  /\ path[i + 1] \in DOMAIN backups
                  /\ backups[path[i + 1]][Len(backups[path[i + 1]])]
                         = FMul(FInt(Sgn(k - i)), v)
            /\ ret = FMul(FInt(Sgn(k + 1)), v)

C16_Witness ==
    SimDone /\ Len(path) >= 2 /\ leaf.value # Zero /\ leaf.kind = "expanded"

RECURSIVE SeqSum(_)
\* sum of a sequence of rationals
SeqSum(q) == IF q = <<>> THEN Zero ELSE FAdd(SeqSum(SubSeq(q, 1, Len(q) - 1)), q[Len(q)])

\* the values backed up through the edges of a state, absent edges counting 0
BackupsAt(state) ==
    Total([a \in Actions |->
              IF <<state, a>> \in DOMAIN backups THEN Len(backups[<<state, a>>]) ELSE 0],
          ACTION_SIZE)

\* C17: Nsa of an edge is the number of values backed up through it and Ns
\* of a state the number backed up through its edges, in every state, so a
\* backup adds exactly 1 to each; whenever no search call is in progress,
\* Qsa of an edge is the arithmetic mean of the values backed up through it
C17_RunningMean ==
    /\ \A e \in DOMAIN backups :
          e \in DOMAIN Nsa /\ Nsa[e] = Len(backups[e])
    /\ \A s \in DOMAIN Ns : Ns[s] = BackupsAt(s)
    /\ Quiet =>
          \A e \in DOMAIN backups :
              /\ e \in DOMAIN Qsa
              /\ Qsa[e] = FDiv(SeqSum(backups[e]), FInt(Len(backups[e])))

\* an edge carries three values that are not all the same
C17_Witness ==
    /\ Quiet
    /\ \E e \in DOMAIN backups :
          /\ Len(backups[e]) >= 3
          /\ backups[e][1] # backups[e][2]
          /\ Qsa[e] # Zero

\* C18: no step removes a key from Ps, Ns, Qsa or Nsa, lowers a count of Ns
\* or Nsa, or changes the prior of a state that has one; a later call of
\* getActionProbabilities starts from what the earlier calls stored
C18_MonotonicGrowth ==
    [][/\ DOMAIN Ps \subseteq DOMAIN Ps'
       /\ DOMAIN Ns \subseteq DOMAIN Ns'
       /\ DOMAIN Qsa \subseteq DOMAIN Qsa'
       /\ DOMAIN Nsa \subseteq DOMAIN Nsa'
       /\ \A s \in DOMAIN Ns : Ns'[s] >= Ns[s]
       /\ \A e \in DOMAIN Nsa : Nsa'[e] >= Nsa[e]
       /\ \A s \in DOMAIN Ps : Ps'[s] = Ps[s]]_vars

\* a second call of getActionProbabilities returned counts that include the
\* simulations of the first
C18_Witness ==
    Returned /\ sims = 4 /\ RootVisits = 3 /\ twin.budget = 0

\* the edges and the states of the path of the current simulation
PathEdges == {path[i] : i \in 1 .. Len(path)}

PathStates == {path[i][1] : i \in 1 .. Len(path)}

\* C20: a top-level call of search that returned added to Ps and to Ns the
\* same states, one (the leaf, with no visit) when its path ended at a
\* position in play that had no prior and none when it ended at a finished
\* game; it changed Qsa and Nsa only at the edges of its path, Ns only at the
\* states of its path, and no prior
C20_OneExpansionPerSimulation ==
    SimDone =>
        LET added == DOMAIN Ps \ DOMAIN before[4]
        IN  /\ DOMAIN Ns \ DOMAIN before[2] = added
            /\ added = IF leaf.kind = "expanded" THEN {leaf.state} ELSE {}
            /\ \A s \in added : Ns[s] = 0
            /\ \A s \in DOMAIN before[4] : Ps[s] = before[4][s]
            /\ \A s \in DOMAIN before[2] : s \notin PathStates => Ns[s] = before[2][s]
            /\ \A e \in (DOMAIN Qsa) \ PathEdges :
                  e \in DOMAIN before[1] /\ Qsa[e] = before[1][e]
            /\ \A e \in (DOMAIN Nsa) \ PathEdges :
                  e \in DOMAIN before[3] /\ Nsa[e] = before[3][e]

\* a simulation went down one edge of the root, past a stored edge that is
\* not on its path, and added its leaf
C20_Witness ==
    /\ SimDone
    /\ leaf.kind = "expanded"
    /\ Len(path) >= 1
    /\ (DOMAIN before[3]) \ PathEdges # {}
    /\ (DOMAIN before[2]) \ PathStates # {}

RECURSIVE Decided(_)
\* every line of legal play from the board reaches a board whose outcome is
\* not 0
Decided(pos) ==
    IF get_game_ended([pos |-> pos, player |-> WHITE], WHITE) # 0 THEN TRUE
    ELSE /\ \E a \in Actions : Legal(pos, a)
         /\ \A a \in Actions : Legal(pos, a) => Decided(pos + a + 1)

RECURSIVE Plies(_)
\* the length of the longest line of legal play from a decided board
Plies(pos) ==
    IF get_game_ended([pos |-> pos, player |-> WHITE], WHITE) # 0 THEN 0
    ELSE LET below == {Plies(pos + a + 1) : a \in {b \in Actions : Legal(pos, b)}}
         IN  1 + CHOOSE n \in below : \A m \in below : m <= n

\* the boards from which every line of legal play ends decided
DecidedBoards == {pos \in 0 .. LastBoard : Decided(pos)}

\* the longest line of legal play from each of them
LongestLine == [pos \in DecidedBoards |-> Plies(pos)]

\* what a running call of search has left to do at most: two steps (the
\* choice and the backup) for every activation it can still open, one step
\* (the return) for every activation that is open
Variant == 2 * (LongestLine[root.pos] - Len(path)) + Len(stack)

\* C19: when every line of legal play from the root reaches a nonzero
\* outcome within L plies, no call of search is more than L + 1 activations
\* deep, and every step of a running call lowers the variant, which is never
\* negative: the call ends after at most 2L + 1 steps
C19_SearchTerminates ==
    /\ [](root.pos \in DecidedBoards => Len(stack) <= LongestLine[root.pos] + 1)
    /\ [][(root.pos \in DecidedBoards /\ stack # <<>> /\ stack' # stack) =>
             (Variant' < Variant /\ Variant' >= 0)]_vars

\* the search stands L + 1 activations deep, at the end of a longest line
C19_Witness ==
    /\ root.pos \in DecidedBoards
    /\ LongestLine[root.pos] >= 2
    /\ Len(stack) = LongestLine[root.pos] + 1

\* C14: a second session that starts from empty dictionaries and runs
\* getActionProbabilities with the root, the number of simulations, the
\* temperature and the oracle of the first ends like the first: the same
\* Qsa, Ns, Nsa and Ps and the same probability vector
C14_Deterministic ==
    twin.session = 2 =>
        /\ ~raised
        /\ (mode = "idle" /\ last.kind = "probabilities") =>
               /\ store = twin.saved.store
               /\ result = twin.saved.result

\* both sessions searched below the root and answered at a temperature
\* other than 0
C14_Witness ==
    /\ twin.session = 2
    /\ Returned
    /\ DOMAIN Nsa # {}
    /\ twin.saved.temp # Zero
    /\ result = twin.saved.result
====
